---------------------------- MODULE Spec2Model ----------------------------
(***************************************************************************)
(* A model of the audio visualiser's analysis pipeline:                    *)
(*   bars.rs        range construction and reduction (GroupingStrategy)    *)
(*   smoothing.rs   rise/fall temporal smoothing (SmoothingStrategy)       *)
(*   visualiser.rs  VisualiserBuilder::build and Visualiser::draw_fft      *)
(*   spectra.rs     chromagram and harmonic product spectrum               *)
(*   colour.rs      ChromagramColour::get_colour and hsv_to_rgb            *)
(*                                                                         *)
(* Number representation.  The program computes in f32.  The model keeps   *)
(* three representations, each chosen so that the modelled inputs are      *)
(* computed without loss:                                                  *)
(*   - bar intensities, chroma values and colours are exact rationals      *)
(*     <<n, d>> in lowest terms (d > 0);                                   *)
(*   - log2 is quantised downwards to multiples of 1/LogPrecision;         *)
(*   - the log10/powf interpolation of log_ranges is computed in decimal   *)
(*     fixed point (four digits), and the f32 product num_bars * weight    *)
(*     is computed bit-exactly (24-bit significand, round to nearest       *)
(*     even).                                                              *)
(* A Rust panic (slice or index out of range, copy_from_slice length       *)
(* mismatch) is an explicit outcome: operators that can panic return a     *)
(* record with a field `panic`.                                            *)
(***************************************************************************)
EXTENDS Integers, Sequences, FiniteSets, TLC

VARIABLES
    \* ---- log_ranges called as a function (bars.rs) ----
    lr_num_bars,        \* argument num_bars
    lr_rate,            \* arguments <<sample_rate, fft_size>>
    lr_called,          \* whether the call has returned (or panicked)
    lr_result,          \* [panic, bins_per_range, index, ranges]
    \* ---- SmoothingStrategy::smooth on a persistent BarSet (smoothing.rs) ----
    sm_strategy,        \* the SmoothingStrategy
    sm_previous,        \* the persistent BarSet `previous`, mutated in place
    sm_current,         \* the raw bars `current` of the latest call
    sm_calls,           \* number of smooth calls made since construction
    sm_panic,           \* whether the latest call panicked
    \* ---- frequency_to_harmonic_product_spectrum as a function (spectra.rs) ----
    hps_frequencies,    \* argument frequencies
    hps_downsamples,    \* argument downsamples
    hps_called,         \* whether the call has returned (or panicked)
    hps_result,         \* [panic, result]
    \* ---- pitch_spectrum_to_chromagram as a function (spectra.rs, colour.rs) ----
    ch_pitches,         \* argument pitches (128 entries; pitches[p + 1] is pitch p)
    ch_called,          \* whether the calls have returned
    ch_chromagram,      \* result of spectra.rs pitch_spectrum_to_chromagram
    ch_normalised,      \* result of colour.rs pitch_spectrum_to_chromagram
    \* ---- ChromagramColour (colour.rs) ----
    cc_smoothing_factor,    \* field smoothing_factor
    cc_smoothed_chromagram, \* field smoothed_chromagram
    cc_colour,              \* field colour, <<r, g, b, a>>
    cc_rate,                \* <<sampling_rate, spectrum length>> of the calls
    cc_chromagram,          \* the local `chromagram` of the latest get_colour
    cc_calls,               \* number of get_colour calls made
    cc_panic,               \* whether the latest call panicked
    \* ---- VisualiserBuilder / Visualiser (visualiser.rs) ----
    vis_grouping,           \* field grouping: [kind, gamma]
    vis_num_bars,           \* the configured number of bars
    vis_smoothing,          \* field smoothing
    vis_built,              \* whether build has returned a Visualiser
    vis_grouping_ranges,    \* field grouping_ranges
    vis_bars_to_display,    \* field bars_to_display
    vis_input,              \* the spectrum of the latest draw_fft
    vis_normalised,         \* the bars the latest draw_fft handed to draw_bars
    vis_frames,             \* number of draw_fft calls made
    vis_panic,              \* whether build or the latest draw_fft panicked
    \* ---- capture thread and render loop (main.rs) ----
    buffer,                 \* the shared VecDeque behind the mutex
    mutex,                  \* who holds the buffer mutex: "none", "capture", "render"
    cap_pc,                 \* capture thread: "read", "lock", "push", "trim", "unlock"
    cap_new_samples,        \* capture thread: new_samples still to be pushed
    cap_reads,              \* capture thread: reads of the audio source made
    cap_pushed,             \* number of samples pushed into the buffer so far
    rd_pc,                  \* render loop: "lock", "copy", "unlock", "check",
                            \*              "fft", "analyse", "next_frame"
    rd_samples_to_use,      \* render loop: samples_to_use of the current frame
    rd_transformed,         \* lengths of the blocks handed to compute_fft so far
    rd_smoothed_updates,    \* number of updates of `smoothed` so far
    rd_frames,              \* frames of the render loop completed
    \* ---- get_n_largest_indices and the top notes (spectra.rs, visualiser.rs) ----
    top_items,              \* argument items
    top_n,                  \* argument n
    top_called,             \* whether the call has returned
    top_indices,            \* the indices returned
    top_notes               \* draw_chromagram's top_three_notes

lr_vars == <<lr_num_bars, lr_rate, lr_called, lr_result>>

sm_vars == <<sm_strategy, sm_previous, sm_current, sm_calls, sm_panic>>

hps_vars == <<hps_frequencies, hps_downsamples, hps_called, hps_result>>

ch_vars == <<ch_pitches, ch_called, ch_chromagram, ch_normalised>>

cc_vars == <<cc_smoothing_factor, cc_smoothed_chromagram, cc_colour, cc_rate,
             cc_chromagram, cc_calls, cc_panic>>

vis_vars == <<vis_grouping, vis_num_bars, vis_smoothing, vis_built,
              vis_grouping_ranges, vis_bars_to_display, vis_input,
              vis_normalised, vis_frames, vis_panic>>

av_vars == <<buffer, mutex, cap_pc, cap_new_samples, cap_reads, cap_pushed,
             rd_pc, rd_samples_to_use, rd_transformed, rd_smoothed_updates,
             rd_frames>>

top_vars == <<top_items, top_n, top_called, top_indices, top_notes>>

vars == <<lr_vars, sm_vars, hps_vars, ch_vars, cc_vars, vis_vars, av_vars, top_vars>>

-----------------------------------------------------------------------------
(* Bounds of the model *)

\* largest requested bar count when log_ranges is called as a function
MaxBars == 16

\* largest length of a BarSet handed to smooth
MaxSmoothLen == 2

\* largest number of smooth calls on one BarSet
MaxSmoothCalls == 2

\* largest spectrum length and downsample factor handed to the harmonic
\* product spectrum, and the largest spectrum value
MaxHpsLen == 5

MaxDownsamples == 3

MaxHpsValue == 3

\* largest energy of one pitch of a pitch spectrum
MaxPitchEnergy == 2

\* largest number of get_colour calls on one ChromagramColour
MaxColourCalls == 2

\* largest number of bars a Visualiser is configured with
MaxVisBars == 3

\* largest number of draw_fft calls on one Visualiser
MaxFrames == 2

\* log2 is taken to the next multiple of 1 / LogPrecision below
LogPrecision == 4

\* FFT_SIZE of the capture thread and the render loop (2048 in main.rs)
FftSize == 2

\* largest number of reads of the audio source
MaxReads == 2

\* largest number of frames of the render loop
MaxRenderFrames == 2

\* longest sequence handed to get_n_largest_indices besides a chromagram
MaxTopLen == 3

\* largest value in such a sequence
MaxTopValue == 2

\* largest n asked of get_n_largest_indices
MaxTopN == 3

-----------------------------------------------------------------------------
(* Integer helpers *)

Max2(a, b) == IF a >= b THEN a ELSE b

Abs(a) == IF a < 0 THEN -a ELSE a

RECURSIVE Pow(_, _)
Pow(b, e) == IF e = 0 THEN 1 ELSE b * Pow(b, e - 1)

RECURSIVE Gcd(_, _)
Gcd(a, b) == IF b = 0 THEN a ELSE Gcd(b, a % b)

\* s[lo] + ... + s[hi], summed by halves
RECURSIVE SumRange(_, _, _)
SumRange(s, lo, hi) ==
    IF lo > hi THEN 0
    ELSE IF lo = hi THEN s[lo]
    ELSE LET mid == (lo + hi) \div 2
         IN  SumRange(s, lo, mid) + SumRange(s, mid + 1, hi)

SumSeq(s) == SumRange(s, 1, Len(s))

\* usize::MAX, the value a saturating `as usize` cast gives for +inf
UsizeMax == 2147483647

-----------------------------------------------------------------------------
(* bars.rs: log_ranges *)

\* The f32 values of the weights 0.08, 0.16, 0.16, 0.26, 0.22, 0.12, each as
\* <<significand, e>> meaning significand * 2^-e (24-bit significands).
weights == << <<10737418, 27>>, <<10737418, 26>>, <<10737418, 26>>,
              <<8724152, 25>>, <<14763950, 26>>, <<16106127, 27>> >>

\* The band edges in Hz: band i spans freq_ranges[i][1] .. freq_ranges[i][2].
freq_ranges == << <<0, 60>>, <<60, 250>>, <<250, 500>>,
                  <<500, 2000>>, <<2000, 6000>>, <<6000, 20000>> >>

\* Number of bits by which a product must be shifted to fit 24 bits.
RECURSIVE ShiftTo24(_, _)
ShiftTo24(p, s) == IF p < Pow(2, 24 + s) THEN s ELSE ShiftTo24(p, s + 1)

\* (num_bars as f32 * v).floor() as usize for v = w[1] * 2^-w[2]: the exact
\* product is rounded to a 24-bit significand (ties to even), then floored.
F32MulFloor(n, w) ==
    LET p    == n * w[1]
        s    == ShiftTo24(p, 0)
        unit == Pow(2, s)
        q    == p \div unit
        r    == p % unit
        up   == (2 * r > unit) \/ (2 * r = unit /\ q % 2 = 1)
        rounded == (IF up THEN q + 1 ELSE q) * unit
    IN  rounded \div Pow(2, w[2])

\* let mut bins_per_range = weights.map(|(_, v)| (num_bars as f32 * v).floor() as usize);
FlooredBins(num_bars) == [b \in 1..6 |-> F32MulFloor(num_bars, weights[b])]

\* while bin_sum < num_bars { bins_per_range[index] += 1; bin_sum += 1; index += 1; }
\* `index` counts from 0 as in the source; bins_per_range[index] is the model's
\* bins[index + 1].  Indexing the six-element array at index 6 panics.
RECURSIVE Distribute(_, _, _, _)
Distribute(bins, bin_sum, index, num_bars) ==
    IF bin_sum >= num_bars
    THEN [panic |-> FALSE, bins |-> bins, index |-> index]
    ELSE IF index >= 6
         THEN [panic |-> TRUE, bins |-> bins, index |-> index]
         ELSE Distribute([bins EXCEPT ![index + 1] = @ + 1],
                         bin_sum + 1, index + 1, num_bars)


\* Decimal fixed point for the log10 / powf interpolation: a logarithm x is
\* held as the integer x * LogScale.
LogScale == 10000

\* start.log10() and end.log10() of the band edges, times LogScale.
\* log10(0.0) is -inf and is handled where it is used (band 1).
Log10Fx == (60 :> 17782) @@ (250 :> 23979) @@ (500 :> 26990) @@
           (2000 :> 33010) @@ (6000 :> 37782) @@ (20000 :> 43010)

\* 10^(d/10), 10^(d/100), 10^(d/1000), 10^(d/10000) for the digit d = 0..9,
\* times LogScale (index d + 1).
Pow10Digit == <<
    <<10000, 12589, 15849, 19953, 25119, 31623, 39811, 50119, 63096, 79433>>,
    <<10000, 10233, 10471, 10715, 10965, 11220, 11482, 11749, 12023, 12303>>,
    <<10000, 10023, 10046, 10069, 10093, 10116, 10139, 10162, 10186, 10209>>,
    <<10000, 10002, 10005, 10007, 10009, 10012, 10014, 10016, 10018, 10021>> >>

\* Fixed-point product, rounded to nearest.
MulFx(a, b) == (a * b + LogScale \div 2) \div LogScale

\* 10.0_f32.powf(x) for x >= 1, in tenths of a Hz: the integer part of x
\* shifts the decimal point, each fractional digit contributes one factor.
Pow10DeciHz(x) ==
    LET int  == x \div LogScale
        frac == x % LogScale
        m == MulFx(MulFx(MulFx(Pow10Digit[1][(frac \div 1000) + 1],
                               Pow10Digit[2][((frac \div 100) % 10) + 1]),
                         Pow10Digit[3][((frac \div 10) % 10) + 1]),
                   Pow10Digit[4][(frac % 10) + 1])
    IN  (m * Pow(10, int)) \div 1000

\* ((f / freq_per_bin) - 1.0).round() as usize, for f in tenths of a Hz and
\* freq_per_bin = sample_rate / fft_size: round() rounds half away from zero
\* and the cast saturates negative values to 0.
RoundToBin(f_deci, sample_rate, fft_size) ==
    LET num == f_deci * fft_size - 10 * sample_rate
        den == 10 * sample_rate
    IN  IF num <= 0 THEN 0 ELSE (2 * num + den) \div (2 * den)

\* The bin computed for the k-th of bin_count logarithmic steps of band i:
\*   10.0_f32.powf(log_start + k as f32 * step), step = (log_end - log_start) / bin_count
\* In band 1 log_start = log10(0.0) = -inf and step = +inf, so the exponent is
\* -inf + 0 * inf or -inf + inf, which is NaN either way; NaN as usize is 0.
ComputedBin(i, k, bin_count, sample_rate, fft_size) ==
    IF freq_ranges[i][1] = 0
    THEN 0
    ELSE LET log_start == Log10Fx[freq_ranges[i][1]]
             log_end   == Log10Fx[freq_ranges[i][2]]
             x == log_start + (k * (log_end - log_start)) \div bin_count
         IN  RoundToBin(Pow10DeciHz(x), sample_rate, fft_size)

\* BinEnd without the widening to one bin
BinEndNotWidened(bin_start, computed_bin_end) == Max2(bin_start, computed_bin_end)

\* let bin_end = max(bin_start + 1, computed_bin_end); // Ensure at least 1 bin
BinEnd(bin_start, computed_bin_end) == Max2(bin_start + 1, computed_bin_end)

\* The nested loops over the bands i and the bars j of each band (lines 42-63).
\* j counts from 0 as in the source; i is the band, 1..6.
RECURSIVE PushRanges(_, _, _, _, _, _, _)
PushRanges(bins, i, j, last_bin_end, ranges, sample_rate, fft_size) ==
    IF i > 6
    THEN ranges
    ELSE IF j >= bins[i]
         THEN PushRanges(bins, i + 1, 0, last_bin_end, ranges, sample_rate, fft_size)
         ELSE LET computed_bin_start ==
                      ComputedBin(i, j, bins[i], sample_rate, fft_size)
                  computed_bin_end ==
                      ComputedBin(i, j + 1, bins[i], sample_rate, fft_size)
                  bin_start == Max2(computed_bin_start, last_bin_end)
                  bin_end   == BinEnd(bin_start, computed_bin_end)
              IN  PushRanges(bins, i, j + 1, bin_end,
                             Append(ranges, <<bin_start, bin_end>>),
                             sample_rate, fft_size)

\* fn log_ranges(num_bars, sample_rate, fft_size) -> Vec<(usize, usize)>
LogRanges(num_bars, sample_rate, fft_size) ==
    LET floored == FlooredBins(num_bars)
        d == Distribute(floored, SumSeq(floored), 0, num_bars)
    IN  IF d.panic
        THEN [panic |-> TRUE, bins_per_range |-> d.bins, index |-> d.index,
              ranges |-> <<>>]
        ELSE [panic |-> FALSE, bins_per_range |-> d.bins, index |-> d.index,
              ranges |-> PushRanges(d.bins, 1, 0, 0, <<>>, sample_rate, fft_size)]

-----------------------------------------------------------------------------
(* f32 values as exact rationals <<n, d>>, d > 0, in lowest terms.         *)
(* <<0, 0>> stands for NaN (0.0 / 0.0).                                     *)

NaN == <<0, 0>>

IsNaN(a) == a[2] = 0

Rat(n, d) ==
    IF d = 0 THEN NaN
    ELSE LET g == Gcd(Abs(n), Abs(d))
         IN  IF d > 0 THEN <<n \div g, d \div g>> ELSE <<(0 - n) \div g, (0 - d) \div g>>

Zero == <<0, 1>>

One == <<1, 1>>

RAdd(a, b) ==
    IF IsNaN(a) \/ IsNaN(b) THEN NaN
    ELSE LET g == Gcd(a[2], b[2])
         IN  Rat(a[1] * (b[2] \div g) + b[1] * (a[2] \div g), (a[2] \div g) * b[2])

RSub(a, b) == RAdd(a, <<0 - b[1], b[2]>>)

RMul(a, b) ==
    IF IsNaN(a) \/ IsNaN(b) THEN NaN
    ELSE LET g1 == Gcd(Abs(a[1]), b[2])
             g2 == Gcd(Abs(b[1]), a[2])
         IN  Rat((a[1] \div g1) * (b[1] \div g2), (a[2] \div g2) * (b[2] \div g1))

\* a / b; x / 0.0 is NaN for x = 0 (the only case the model meets a zero divisor)
RDiv(a, b) ==
    IF IsNaN(a) \/ IsNaN(b) \/ b[1] = 0 THEN NaN
    ELSE RMul(a, <<b[2], b[1]>>)

\* a < b for non-negative a, b, by comparing integer parts and then the
\* reciprocals of the fractional parts (no product is formed).  Any
\* comparison with NaN is false.
RECURSIVE RLess(_, _)
RLess(a, b) ==
    IF IsNaN(a) \/ IsNaN(b) THEN FALSE
    ELSE LET qa == a[1] \div a[2]
             qb == b[1] \div b[2]
             ra == a[1] % a[2]
             rb == b[1] % b[2]
         IN  IF qa # qb THEN qa < qb
             ELSE IF rb = 0 THEN FALSE
             ELSE IF ra = 0 THEN TRUE
             ELSE RLess(<<b[2], rb>>, <<a[2], ra>>)

RLeq(a, b) == a = b \/ RLess(a, b)

\* f32::max(a, b): the other operand when one is NaN
RMax(a, b) ==
    IF IsNaN(a) THEN b
    ELSE IF IsNaN(b) THEN a
    ELSE IF RLess(a, b) THEN b ELSE a

-----------------------------------------------------------------------------
(* smoothing.rs *)

\* the attack branch of rise_fall_smoothing: previous[i] * rise + val * (1.0 - rise)
\* (the release branch is the same expression with fall)
Blend(prev, val, coeff) ==
    RAdd(RMul(prev, coeff), RMul(val, RSub(One, coeff)))

\* RiseFallStep with the comparison reversed: attack on a falling value
RiseFallStepReversed(prev, val, rise, fall) ==
    IF RLess(val, prev) THEN Blend(prev, val, rise) ELSE Blend(prev, val, fall)

\* if val > previous[i] { attack } else { release }
RiseFallStep(prev, val, rise, fall) ==
    IF RLess(prev, val) THEN Blend(prev, val, rise) ELSE Blend(prev, val, fall)

\* for (i, &val) in current.iter().enumerate() { ... previous[i] ... }
\* i counts from 1.  previous[i] beyond the end of previous panics.
RECURSIVE RiseFallLoop(_, _, _, _, _)
RiseFallLoop(previous, current, i, rise, fall) ==
    IF i > Len(current)
    THEN [panic |-> FALSE, bars |-> previous]
    ELSE IF i > Len(previous)
         THEN [panic |-> TRUE, bars |-> previous]
         ELSE RiseFallLoop(
                  [previous EXCEPT ![i] = RiseFallStep(previous[i], current[i], rise, fall)],
                  current, i + 1, rise, fall)

\* fn rise_fall_smoothing(previous: &mut [f32], current: &[f32], rise, fall)
\* copy_from_slice panics when the two slices differ in length.
RiseFallSmoothing(previous, current, rise, fall) ==
    IF Len(previous) = 0
    THEN IF Len(current) = 0
         THEN [panic |-> FALSE, bars |-> current]
         ELSE [panic |-> TRUE, bars |-> previous]
    ELSE RiseFallLoop(previous, current, 1, rise, fall)

\* SmoothingStrategy::None => ()
NoSmoothing(previous, current) == [panic |-> FALSE, bars |-> previous]

\* SmoothingStrategy::smooth(&self, previous, current)
Smooth(strategy, previous, current) ==
    IF strategy.kind = "RiseFall"
    THEN RiseFallSmoothing(previous, current, strategy.rise, strategy.fall)
    ELSE NoSmoothing(previous, current)

\* The strategies a Visualiser is built with: the builder's default
\* RiseFall { rise: 0.5, fall: 0.9 } and None.
RiseFall == [kind |-> "RiseFall", rise |-> <<1, 2>>, fall |-> <<9, 10>>]

NoneStrategy == [kind |-> "None", rise |-> Zero, fall |-> Zero]

SmoothingStrategies == {RiseFall, NoneStrategy}

\* vec![0.0; n]
Zeros(n) == [i \in 1..n |-> Zero]

-----------------------------------------------------------------------------
(* spectra.rs: frequency_to_harmonic_product_spectrum                       *)
(* Spectrum values are small integers, whose products f32 holds exactly.    *)
(* Indices count from 0 as in the source; frequencies[k] is the model's     *)
(* frequencies[k + 1].                                                      *)

\* HpsMultiply reading the harmonic one bin too low
HpsMultiplyShifted(result, frequencies, i, j) ==
    [result EXCEPT ![i + 1] = @ * frequencies[j * i]]

\* result[i] *= frequencies[j * i];
HpsMultiply(result, frequencies, i, j) ==
    [result EXCEPT ![i + 1] = @ * frequencies[j * i + 1]]

\* for i in 1..output_len { for j in 2..=downsamples { ... } }
\* frequencies[j * i] outside the slice panics.
RECURSIVE HpsLoop(_, _, _, _, _, _)
HpsLoop(result, frequencies, output_len, downsamples, i, j) ==
    IF i >= output_len
    THEN [panic |-> FALSE, result |-> result]
    ELSE IF j > downsamples
         THEN HpsLoop(result, frequencies, output_len, downsamples, i + 1, 2)
         ELSE IF j * i >= Len(frequencies)
              THEN [panic |-> TRUE, result |-> result]
              ELSE HpsLoop(HpsMultiply(result, frequencies, i, j),
                           frequencies, output_len, downsamples, i, j + 1)

\* pub fn frequency_to_harmonic_product_spectrum(frequencies, downsamples) -> Vec<f32>
FrequencyToHarmonicProductSpectrum(frequencies, downsamples) ==
    IF downsamples <= 1
    THEN [panic |-> FALSE, result |-> frequencies]
    ELSE LET output_len == Len(frequencies) \div downsamples
         IN  HpsLoop(SubSeq(frequencies, 1, output_len), frequencies,
                     output_len, downsamples, 1, 2)

-----------------------------------------------------------------------------
(* spectra.rs and colour.rs: pitch_spectrum_to_chromagram                   *)
(* Pitch energies are small integers; pitches[p + 1] is the energy of       *)
(* pitch p, chromagram[c + 1] that of pitch class c.                        *)

\* ChromaClass off by one semitone
ChromaClassShifted(p) == (p + 1) % 12

\* chromagram[p % 12]
ChromaClass(p) == p % 12

\* chromagram[class] += val, on the twelve-entry array
AddToClass(chromagram, class, val) ==
    LET e(c) == IF c = class THEN chromagram[c + 1] + val ELSE chromagram[c + 1]
    IN  <<e(0), e(1), e(2), e(3), e(4), e(5), e(6), e(7), e(8), e(9), e(10), e(11)>>

\* for (p, &val) in pitches.iter().enumerate() { chromagram[p % 12] += val; }
\* over the pitches lo <= p < hi in ascending order.  The range is halved and
\* the first half is completed (its twelve sums are in hand; energies are
\* never negative) before the second half starts.
RECURSIVE FoldChroma(_, _, _, _)
FoldChroma(chromagram, pitches, lo, hi) ==
    IF lo >= hi
    THEN chromagram
    ELSE IF hi = lo + 1
         THEN AddToClass(chromagram, ChromaClass(lo), pitches[lo + 1])
         ELSE LET mid == (lo + hi) \div 2
                  first == FoldChroma(chromagram, pitches, lo, mid)
              IN  IF SumSeq(first) >= 0
                  THEN FoldChroma(first, pitches, mid, hi)
                  ELSE first

\* spectra.rs: pub fn pitch_spectrum_to_chromagram(pitches: &[f32]) -> [f32; 12]
PitchSpectrumToChromagram(pitches) ==
    FoldChroma(<<0, 0, 0, 0, 0, 0, 0, 0, 0, 0, 0, 0>>, pitches, 0, Len(pitches))

\* colour.rs: fn pitch_spectrum_to_chromagram(pitches: &[f32; 128]) -> [f32; 12]
\*   let sum: f32 = chromagram.iter().sum();
\*   if sum > 0.0 { chromagram.iter_mut().for_each(|val| *val /= sum); }
NormalisedChromagram(pitches) ==
    LET chromagram == FoldChroma(<<0, 0, 0, 0, 0, 0, 0, 0, 0, 0, 0, 0>>, pitches, 0, Len(pitches))
        sum == SumSeq(chromagram)
    IN  IF sum > 0
        THEN [c \in 1..12 |-> RDiv(<<chromagram[c], 1>>, <<sum, 1>>)]
        ELSE [c \in 1..12 |-> <<chromagram[c], 1>>]

-----------------------------------------------------------------------------
(* bars.rs: gamma_corrected_ranges, take_log_*_ranges, GroupingStrategy     *)
(* A spectrum is a sequence of non-negative integers; bars are rationals.   *)

\* (norm_freq.powf(1.0 / gamma) * ((num_bins) as f32).floor()) as usize
\* for norm_freq = nn / nd and gamma = p / q.  The cast takes NaN to 0 and
\* +inf to usize::MAX.
\*   gamma = 0:  1.0 / gamma is +inf, and x.powf(+inf) is 0, 1 or +inf as x is
\*               below, at or above 1;
\*   gamma < 0:  0.powf(negative) is +inf;
\*   +inf * 0 is NaN.
GammaBarIndex(norm_freq, num_bins, gamma) ==
    LET nn == norm_freq[1]
        nd == norm_freq[2]
        p  == gamma[1]
        q  == gamma[2]
        infinite == IF num_bins = 0 THEN 0 ELSE UsizeMax
        \* largest b with b^e1 * lo^e2 <= hi^e2 * num_bins^e1
        floored(hi, lo, e1, e2) ==
            LET fits(b) == Pow(b, e1) * Pow(lo, e2) <= Pow(hi, e2) * Pow(num_bins, e1)
            IN  CHOOSE b \in 0..(Pow(hi, e2) * num_bins) :
                    fits(b) /\ ~fits(b + 1)
    IN  IF p = 0
        THEN IF nn < nd THEN 0
             ELSE IF nn = nd THEN num_bins
             ELSE infinite
        ELSE IF p > 0
        THEN floored(nn, nd, p, q)
        ELSE IF nn = 0 THEN infinite
             ELSE floored(nd, nn, 0 - p, q)

\* for i in 0..fft_size { ... if b_i != start { ranges.push((start, b_i)); start = b_i; } }
\* freq / nyquist = (i * sample_rate / fft_size) / (sample_rate / 2) = 2 i / fft_size
RECURSIVE GammaLoop(_, _, _, _, _, _)
GammaLoop(ranges, start, i, num_bins, fft_size, gamma) ==
    IF i >= fft_size
    THEN ranges
    ELSE LET b_i == GammaBarIndex(Rat(2 * i, fft_size), num_bins, gamma)
         IN  IF b_i # start
             THEN GammaLoop(Append(ranges, <<start, b_i>>), b_i, i + 1,
                            num_bins, fft_size, gamma)
             ELSE GammaLoop(ranges, start, i + 1, num_bins, fft_size, gamma)

\* fn gamma_corrected_ranges(num_bins, sample_rate, fft_size, gamma) -> Vec<(usize, usize)>
GammaCorrectedRanges(num_bins, sample_rate, fft_size, gamma) ==
    GammaLoop(<<>>, 0, 0, num_bins, fft_size, gamma)

\* x.log2() for x >= 1, taken down to a multiple of 1 / LogPrecision: the
\* largest k / LogPrecision with 2^k * d^LogPrecision <= n^LogPrecision.
\* Exact on the powers of two; NaN.log2() is NaN.
Log2(x) ==
    IF IsNaN(x) THEN NaN
    ELSE LET fits(k) == Pow(2, k) * Pow(x[2], LogPrecision) <= Pow(x[1], LogPrecision)
         IN  Rat(CHOOSE k \in 0..(LogPrecision * x[1]) : fits(k) /\ ~fits(k + 1),
                 LogPrecision)

\* &spectrum[start..end] panics when start > end or end > spectrum.len()
SliceOutOfRange(spectrum, range) ==
    range[1] > range[2] \/ range[2] > Len(spectrum)

\* slice.iter().copied().fold(0.0, f32::max) over spectrum[start..end]
SliceMax(spectrum, start, end) ==
    IF start >= end THEN 0
    ELSE CHOOSE m \in {spectrum[k] : k \in (start + 1)..end} \cup {0} :
             /\ m >= 0
             /\ \A k \in (start + 1)..end : spectrum[k] <= m

\* fn take_log_max_ranges(spectrum, bar_ranges) -> Vec<f32>
\*   log_bars[i] = (max_value + 1.0).log2();
TakeLogMaxRanges(spectrum, bar_ranges) ==
    IF \E i \in 1..Len(bar_ranges) : SliceOutOfRange(spectrum, bar_ranges[i])
    THEN [panic |-> TRUE, bars |-> <<>>]
    ELSE [panic |-> FALSE,
          bars |-> [i \in 1..Len(bar_ranges) |->
                       Log2(Rat(SliceMax(spectrum, bar_ranges[i][1], bar_ranges[i][2]) + 1, 1))]]

\* fn take_log_mean_ranges(spectrum, bar_ranges) -> Vec<f32>
\*   log_bars[i] = ((sum / slice.len() as f32) + 1.0).log2();
\* The mean of an empty slice is 0.0 / 0.0, NaN.
TakeLogMeanRanges(spectrum, bar_ranges) ==
    IF \E i \in 1..Len(bar_ranges) : SliceOutOfRange(spectrum, bar_ranges[i])
    THEN [panic |-> TRUE, bars |-> <<>>]
    ELSE [panic |-> FALSE,
          bars |-> [i \in 1..Len(bar_ranges) |->
                       LET start == bar_ranges[i][1]
                           end == bar_ranges[i][2]
                           sum == SumRange(spectrum, start + 1, end)
                       IN  Log2(RAdd(Rat(sum, end - start), One))]]

\* pub enum GroupingStrategy { NoGrouping, LogMax, LogMean, GammaCorrected { gamma } }
NoGrouping == [kind |-> "NoGrouping", gamma |-> Zero]

LogMax == [kind |-> "LogMax", gamma |-> Zero]

LogMean == [kind |-> "LogMean", gamma |-> Zero]

GammaCorrected(gamma) == [kind |-> "GammaCorrected", gamma |-> gamma]

\* GroupingStrategy::create_ranges(&self, num_bars, sample_rate, fft_size)
CreateRanges(grouping, num_bars, sample_rate, fft_size) ==
    CASE grouping.kind = "NoGrouping" -> [panic |-> FALSE, ranges |-> <<>>]
      [] grouping.kind \in {"LogMax", "LogMean"} ->
            LET r == LogRanges(num_bars, sample_rate, fft_size)
            IN  [panic |-> r.panic, ranges |-> r.ranges]
      [] grouping.kind = "GammaCorrected" ->
            [panic |-> FALSE,
             ranges |-> GammaCorrectedRanges(num_bars, sample_rate, fft_size,
                                             grouping.gamma)]

\* GroupingStrategy::spectrum_to_bars(&self, spectrum, bar_ranges)
SpectrumToBars(grouping, spectrum, bar_ranges) ==
    CASE grouping.kind = "NoGrouping" ->
            [panic |-> FALSE, bars |-> [i \in 1..Len(spectrum) |-> Rat(spectrum[i], 1)]]
      [] grouping.kind = "LogMax" -> TakeLogMaxRanges(spectrum, bar_ranges)
      [] grouping.kind \in {"LogMean", "GammaCorrected"} ->
            TakeLogMeanRanges(spectrum, bar_ranges)

-----------------------------------------------------------------------------
(* visualiser.rs: VisualiserBuilder::build and Visualiser::draw_fft          *)

\* the literal 1e-6
Epsilon == <<1, 1000000>>

\* MaxVal without the 1e-6 floor
RECURSIVE MaxValFromZero(_, _)
MaxValFromZero(bars, i) ==
    IF i > Len(bars) THEN Zero ELSE RMax(MaxValFromZero(bars, i + 1), bars[i])

\* self.bars_to_display.iter().cloned().fold(1e-6, f32::max), from entry i on
RECURSIVE MaxVal(_, _)
MaxVal(bars, i) ==
    IF i > Len(bars) THEN Epsilon ELSE RMax(MaxVal(bars, i + 1), bars[i])

\* self.bars_to_display.iter().map(|m| m / max_val).collect()
Normalise(bars) ==
    LET max_val == MaxVal(bars, 1)
    IN  [i \in 1..Len(bars) |-> RDiv(bars[i], max_val)]

\* VisualiserBuilder::build(self, sampling_rate, fft_size) -> Visualiser
\*   grouping_ranges: ranges, bars_to_display: vec![0.0; num_bars]
Build(grouping, num_bars, sampling_rate, fft_size) ==
    LET r == CreateRanges(grouping, num_bars, sampling_rate, fft_size)
    IN  [panic |-> r.panic,
         grouping_ranges |-> r.ranges,
         bars_to_display |-> Zeros(num_bars)]

\* Visualiser::draw_fft(&mut self, input): group, smooth in place, normalise.
\* The colour mapper is the builder's StaticColour, whose get_colour returns
\* its colour and changes nothing.
DrawFft(grouping, smoothing, grouping_ranges, bars_to_display, input) ==
    LET grouped == SpectrumToBars(grouping, input, grouping_ranges)
    IN  IF grouped.panic
        THEN [panic |-> TRUE, bars_to_display |-> bars_to_display, normalised |-> <<>>]
        ELSE LET smoothed == Smooth(smoothing, bars_to_display, grouped.bars)
             IN  IF smoothed.panic
                 THEN [panic |-> TRUE, bars_to_display |-> smoothed.bars,
                       normalised |-> <<>>]
                 ELSE [panic |-> FALSE, bars_to_display |-> smoothed.bars,
                       normalised |-> Normalise(smoothed.bars)]

-----------------------------------------------------------------------------
(* colour.rs: ChromagramColour                                              *)

\* 2^((p - 69) / 12) * 440 for the pitches p = 120..131, in mHz
TopOctaveMilliHz == <<8372018, 8869844, 9397273, 9956063, 10548082, 11175303,
                      11839822, 12543854, 13289750, 14080000, 14917240, 15804266>>

\* let f_pitch: f32 = 2.0_f32.powf((p as f32 - 69.0) / 12.0) * 440.0;   (in mHz)
\* each octave down halves the frequency
PitchMilliHz(p) == TopOctaveMilliHz[(p % 12) + 1] \div Pow(2, 10 - (p \div 12))

\* let next_index: usize = (f_pitch / freq_per_bin).floor() as usize;
\* with freq_per_bin = sampling_rate / frequencies.len()
NextIndex(p, len, sampling_rate) ==
    (PitchMilliHz(p) * len) \div (1000 * sampling_rate)

\* fn fourier_to_pitch_spectrum(frequencies, sampling_rate) -> [f32; 128]
\* prev_index is 0 for pitch 0 and the previous pitch's next_index afterwards;
\* the slice frequencies[prev_index..next_index] panics when next_index is
\* beyond the end (next_index never decreases, so the last one decides).
FourierToPitchSpectrum(frequencies, sampling_rate) ==
    LET len == Len(frequencies)
        next_index(p) == NextIndex(p, len, sampling_rate)
        prev_index(p) == IF p = 0 THEN 0 ELSE NextIndex(p - 1, len, sampling_rate)
    IN  IF next_index(127) > len
        THEN [panic |-> TRUE, spectrogram |-> <<>>]
        ELSE [panic |-> FALSE,
              spectrogram |->
                  [q \in 1..128 |->
                      SumRange(frequencies, prev_index(q - 1) + 1, next_index(q - 1))]]

\* a - b as a magnitude: (a - b).abs()
RAbsDiff(a, b) == IF RLess(a, b) THEN RSub(b, a) ELSE RSub(a, b)

\* match h as u32 { 0 => (c, x, 0.0), 1 => (x, c, 0.0), ..., _ => (0.0, 0.0, 0.0) }
HueSector(sector, c, x) ==
    CASE sector = 0 -> <<c, x, Zero>>
      [] sector = 1 -> <<x, c, Zero>>
      [] sector = 2 -> <<Zero, c, x>>
      [] sector = 3 -> <<Zero, x, c>>
      [] sector = 4 -> <<x, Zero, c>>
      [] sector = 5 -> <<c, Zero, x>>
      [] OTHER      -> <<Zero, Zero, Zero>>

\* (r1 + m, g1 + m, b1 + m)
AddToChannels(rgb1, m) == <<RAdd(rgb1[1], m), RAdd(rgb1[2], m), RAdd(rgb1[3], m)>>

\* let x = c * (1.0 - (h % 2.0 - 1.0).abs());  for h = hn / hd
SecondChannel(c, hn, hd) == RMul(c, RSub(One, RAbsDiff(Rat(hn % (2 * hd), hd), One)))

\* the body of hsv_to_rgb for the hue sector h = h.rem_euclid(360.0) / 60.0
HsvSectorToRgb(h, c, val) ==
    AddToChannels(HueSector(h[1] \div h[2], c, SecondChannel(c, h[1], h[2])),
                  RSub(val, c))

\* fn hsv_to_rgb(h: f32, s: f32, v: f32) -> (f32, f32, f32), h in whole degrees
HsvToRgb(h_deg, sat, val) == HsvSectorToRgb(Rat(h_deg % 360, 60), RMul(val, sat), val)

\* self.smoothed_chromagram[i] = self.smoothing_factor * value
\*     + (1.0 - self.smoothing_factor) * self.smoothed_chromagram[i];
SmoothChromagram(smoothed, chromagram, smoothing_factor) ==
    [i \in 1..12 |->
        RAdd(RMul(smoothing_factor, chromagram[i]),
             RMul(RSub(One, smoothing_factor), smoothed[i]))]

\* final_colour.0 += colour.0 * intensity;  (and .1, .2)
AddScaled(final_colour, colour, intensity) ==
    <<RAdd(final_colour[1], RMul(colour[1], intensity)),
      RAdd(final_colour[2], RMul(colour[2], intensity)),
      RAdd(final_colour[3], RMul(colour[3], intensity))>>

\* for (i, &intensity) in self.smoothed_chromagram.iter().enumerate() {
\*     let colour = hsv_to_rgb(i as f32 * 30.0, 1.0, 1.0);
\*     final_colour.k += colour.k * intensity; }
\* (i counts from 0; the loop has twelve iterations)
RECURSIVE MixColours(_, _, _)
MixColours(final_colour, smoothed, i) ==
    IF i >= 12
    THEN final_colour
    ELSE MixColours(AddScaled(final_colour, HsvToRgb(i * 30, One, One), smoothed[i + 1]),
                    smoothed, i + 1)

\* macroquad's WHITE
White == <<One, One, One, One>>

\* Color { r: final_colour.0, g: final_colour.1, b: final_colour.2, a: 1.0 }
ColourOf(final_colour) == <<final_colour[1], final_colour[2], final_colour[3], One>>

\* get_colour from the smoothing on: the new fields for the smoothed chromagram
ColourFromSmoothed(chromagram, smoothed) ==
    [panic |-> FALSE, chromagram |-> chromagram, smoothed_chromagram |-> smoothed,
     colour |-> ColourOf(MixColours(<<Zero, Zero, Zero>>, smoothed, 0))]

\* get_colour from the chromagram on
ColourFromChromagram(chromagram, smoothed_chromagram, smoothing_factor) ==
    ColourFromSmoothed(chromagram,
                       SmoothChromagram(smoothed_chromagram, chromagram, smoothing_factor))

\* get_colour from the pitch spectrum on; a panic leaves the fields as they were
ColourFromPitches(pitch, smoothed_chromagram, smoothing_factor) ==
    IF pitch.panic
    THEN [panic |-> TRUE, chromagram |-> <<>>,
          smoothed_chromagram |-> smoothed_chromagram, colour |-> White]
    ELSE ColourFromChromagram(NormalisedChromagram(pitch.spectrogram),
                              smoothed_chromagram, smoothing_factor)

\* impl ColourMapper for ChromagramColour: fn get_colour(&mut self, spectrum, sampling_rate)
\* Returns the new fields; the returned colour is the field colour.
GetColour(smoothed_chromagram, smoothing_factor, spectrum, sampling_rate) ==
    ColourFromPitches(FourierToPitchSpectrum(spectrum, sampling_rate),
                      smoothed_chromagram, smoothing_factor)

-----------------------------------------------------------------------------
(* main.rs: spawn_audio_reader and the head of run_bar_visualiser's loop     *)
(* A sample is the number of its capture: 1 for the first sample read.      *)

\* for chunk in raw_samples.chunks_exact(8) { new_samples.push((left + right) / 2.0); }
\* raw_samples holds FFT_SIZE stereo frames: one read yields FFT_SIZE samples,
\* the ones captured after the `captured` samples before them.
NewSamples(captured) == [k \in 1..FftSize |-> captured + k]

\* buf.push_back(s)
PushBack(buf, sample) == Append(buf, sample)

\* PopFront dropping the newest sample instead of the oldest
PopBack(buf) == SubSeq(buf, 1, Len(buf) - 1)

\* buf.pop_front()
PopFront(buf) == Tail(buf)

\* samples.lock().unwrap().clone().iter().zip(&window_vec).map(|(&x, &w)| x * w).collect()
\* zip stops at the shorter of the buffer and the FFT_SIZE window coefficients;
\* entry k is the k-th sample of the buffer times the k-th coefficient.
Windowed(buf) ==
    [k \in 1..(IF Len(buf) < FftSize THEN Len(buf) ELSE FftSize) |-> <<buf[k], k>>]

\* TooShort that lets every block through
NeverTooShort(samples_to_use) == FALSE

\* if samples_to_use.len() < FFT_SIZE { next_frame().await; continue; }
TooShort(samples_to_use) == Len(samples_to_use) < FftSize

\* Released that keeps the guard alive
StillHeld(holder) == holder

\* the MutexGuard is dropped: at the end of the `let samples_to_use` statement
\* in the render loop, at the end of the `if let Ok(_)` block in the capture thread
Released(holder) == "none"

-----------------------------------------------------------------------------
(* spectra.rs: get_n_largest_indices and chroma_index_to_note               *)
(* Items are integers standing for f32 values: the function only compares   *)
(* them.  Indices count from 0 as in the source.                            *)

\* for i in 0..n { if value > values[i] { ...; break; } }
\* the first slot from i on whose value is smaller, n + 1 when there is none
RECURSIVE FirstSmaller(_, _, _, _)
FirstSmaller(values, value, i, n) ==
    IF i > n THEN n + 1
    ELSE IF value > values[i] THEN i
    ELSE FirstSmaller(values, value, i + 1, n)

\* for j in (i + 1..n).rev() { v[j] = v[j - 1]; }  v[i] = x;
InsertAt(v, i, x) ==
    [j \in 1..Len(v) |-> IF j < i THEN v[j] ELSE IF j = i THEN x ELSE v[j - 1]]

\* the body of the outer loop for one item: state is <<values, indices>>
TopStep(state, value, index, slot) ==
    IF slot > Len(state[1])
    THEN state
    ELSE <<InsertAt(state[1], slot, value), InsertAt(state[2], slot, index)>>

\* for (index, &value) in items.iter().enumerate() { ... }
RECURSIVE TopLoop(_, _, _)
TopLoop(state, items, index) ==
    IF index >= Len(items)
    THEN state[2]
    ELSE TopLoop(TopStep(state, items[index + 1], index,
                         FirstSmaller(state[1], items[index + 1], 1, Len(state[1]))),
                 items, index + 1)

\* pub fn get_n_largest_indices(items: &[f32], n: usize) -> Vec<usize>
\*   let mut values = vec![0.0; n];  let mut indices = vec![items.len(); n];
GetNLargestIndices(items, n) ==
    TopLoop(<<[i \in 1..n |-> 0], [i \in 1..n |-> Len(items)]>>, items, 0)

NoteNames == <<"C", "C#/Db", "D", "D#/Eb", "E", "F", "F#/Gb", "G", "G#/Ab", "A",
               "A#/Bb", "B">>

\* pub fn chroma_index_to_note(index: usize) -> String
ChromaIndexToNote(index) ==
    IF index \in 0..11 THEN NoteNames[index + 1] ELSE "UNK"

\* top_three_indices.iter().map(|&val| chroma_index_to_note(val)).collect()
TopNotes(indices) == [i \in 1..Len(indices) |-> ChromaIndexToNote(indices[i])]

-----------------------------------------------------------------------------
(* Each specification below runs one part of the program; the variables of  *)
(* the other parts stay at these values.                                    *)

NoRanges == [panic |-> FALSE, bins_per_range |-> [b \in 1..6 |-> 0],
             index |-> 0, ranges |-> <<>>]

LrIdle ==
    /\ lr_num_bars = 0
    /\ lr_rate = <<44100, 8>>
    /\ lr_called = FALSE
    /\ lr_result = NoRanges

SmIdle ==
    /\ sm_strategy = NoneStrategy
    /\ sm_previous = <<>>
    /\ sm_current = <<>>
    /\ sm_calls = 0
    /\ sm_panic = FALSE

HpsIdle ==
    /\ hps_frequencies = <<>>
    /\ hps_downsamples = 0
    /\ hps_called = FALSE
    /\ hps_result = [panic |-> FALSE, result |-> <<>>]

ChIdle ==
    /\ ch_pitches = <<>>
    /\ ch_called = FALSE
    /\ ch_chromagram = <<>>
    /\ ch_normalised = <<>>

CcIdle ==
    /\ cc_smoothing_factor = Zero
    /\ cc_smoothed_chromagram = Zeros(12)
    /\ cc_colour = White
    /\ cc_rate = <<44100, 0>>
    /\ cc_chromagram = <<>>
    /\ cc_calls = 0
    /\ cc_panic = FALSE

AvIdle ==
    /\ buffer = <<>>
    /\ mutex = "none"
    /\ cap_pc = "read"
    /\ cap_new_samples = <<>>
    /\ cap_reads = 0
    /\ cap_pushed = 0
    /\ rd_pc = "lock"
    /\ rd_samples_to_use = <<>>
    /\ rd_transformed = {}
    /\ rd_smoothed_updates = 0
    /\ rd_frames = 0

TopIdle ==
    /\ top_items = <<>>
    /\ top_n = 0
    /\ top_called = FALSE
    /\ top_indices = <<>>
    /\ top_notes = <<>>

VisIdle ==
    /\ vis_grouping = NoGrouping
    /\ vis_num_bars = 0
    /\ vis_smoothing = NoneStrategy
    /\ vis_built = FALSE
    /\ vis_grouping_ranges = <<>>
    /\ vis_bars_to_display = <<>>
    /\ vis_input = <<>>
    /\ vis_normalised = <<>>
    /\ vis_frames = 0
    /\ vis_panic = FALSE

-----------------------------------------------------------------------------
(* smooth called on a BarSet as build creates it (all zero), with raw bars  *)
(* drawn from a small set on every call.                                    *)

\* the raw bar values 0.0, 0.2 and 0.8
SmoothValues == {Zero, <<1, 5>>, <<4, 5>>}

SeqsUpTo(S, n) == UNION {[1..k -> S] : k \in 0..n}

SmInit ==
    /\ LrIdle /\ HpsIdle /\ ChIdle /\ CcIdle /\ VisIdle /\ AvIdle /\ TopIdle
    /\ sm_strategy \in SmoothingStrategies
    /\ \E n \in 0..MaxSmoothLen : sm_previous = Zeros(n)
    /\ sm_current = <<>>
    /\ sm_calls = 0
    /\ sm_panic = FALSE

\* one call self.smoothing.smooth(&mut previous, &current); a panic ends the run
SmCall ==
    /\ ~sm_panic
    /\ sm_calls < MaxSmoothCalls
    /\ \E current \in SeqsUpTo(SmoothValues, MaxSmoothLen) :
          LET r == Smooth(sm_strategy, sm_previous, current)
          IN  /\ sm_current' = current
              /\ sm_previous' = r.bars
              /\ sm_panic' = r.panic
    /\ sm_calls' = sm_calls + 1
    /\ UNCHANGED sm_strategy
    /\ UNCHANGED <<lr_vars, hps_vars, ch_vars, cc_vars, vis_vars, av_vars, top_vars>>

SpecSmooth == SmInit /\ [][SmCall]_vars

-----------------------------------------------------------------------------
(* log_ranges called as a function: the inputs are drawn in LrInit, the    *)
(* call is one step.                                                        *)

\* <<sample_rate, fft_size>> pairs the function is called with
Rates == {<<44100, 8>>, <<44100, 64>>, <<48000, 128>>, <<8000, 16>>}

LrInit ==
    /\ SmIdle /\ HpsIdle /\ ChIdle /\ CcIdle /\ VisIdle /\ AvIdle /\ TopIdle
    /\ lr_num_bars \in 0..MaxBars
    /\ lr_rate \in Rates
    /\ lr_called = FALSE
    /\ lr_result = NoRanges

LrCall ==
    /\ ~lr_called
    /\ lr_called' = TRUE
    /\ lr_result' = LogRanges(lr_num_bars, lr_rate[1], lr_rate[2])
    /\ UNCHANGED <<lr_num_bars, lr_rate>>
    /\ UNCHANGED <<sm_vars, hps_vars, ch_vars, cc_vars, vis_vars, av_vars, top_vars>>

SpecLogRanges == LrInit /\ [][LrCall]_vars

-----------------------------------------------------------------------------
(* frequency_to_harmonic_product_spectrum called as a function              *)

HpsInit ==
    /\ LrIdle /\ SmIdle /\ ChIdle /\ CcIdle /\ VisIdle /\ AvIdle /\ TopIdle
    /\ hps_frequencies \in SeqsUpTo(0..MaxHpsValue, MaxHpsLen)
    /\ hps_downsamples \in 0..MaxDownsamples
    /\ hps_called = FALSE
    /\ hps_result = [panic |-> FALSE, result |-> <<>>]

HpsCall ==
    /\ ~hps_called
    /\ hps_called' = TRUE
    /\ hps_result' = FrequencyToHarmonicProductSpectrum(hps_frequencies, hps_downsamples)
    /\ UNCHANGED <<hps_frequencies, hps_downsamples>>
    /\ UNCHANGED <<lr_vars, sm_vars, ch_vars, cc_vars, vis_vars, av_vars, top_vars>>

SpecHps == HpsInit /\ [][HpsCall]_vars

-----------------------------------------------------------------------------
(* pitch_spectrum_to_chromagram called as a function, on pitch spectra with *)
(* energy at up to two pitches                                              *)

\* the pitches that carry energy in the modelled pitch spectra
SamplePitches == {0, 11, 12, 59, 60, 66, 72, 127}

\* the 128-entry pitch spectrum with energy v1 at pitch p1 and v2 at pitch p2
PitchSpectrumOf(p1, v1, p2, v2) ==
    [p \in 1..128 |-> (IF p - 1 = p1 THEN v1 ELSE 0) + (IF p - 1 = p2 THEN v2 ELSE 0)]

ChInit ==
    /\ LrIdle /\ SmIdle /\ HpsIdle /\ CcIdle /\ VisIdle /\ AvIdle /\ TopIdle
    /\ \E p1, p2 \in SamplePitches : \E v1, v2 \in 0..MaxPitchEnergy :
          ch_pitches = PitchSpectrumOf(p1, v1, p2, v2)
    /\ ch_called = FALSE
    /\ ch_chromagram = <<>>
    /\ ch_normalised = <<>>

ChCall ==
    /\ ~ch_called
    /\ ch_called' = TRUE
    /\ ch_chromagram' = PitchSpectrumToChromagram(ch_pitches)
    /\ ch_normalised' = NormalisedChromagram(ch_pitches)
    /\ UNCHANGED ch_pitches
    /\ UNCHANGED <<lr_vars, sm_vars, hps_vars, cc_vars, vis_vars, av_vars, top_vars>>

SpecChromagram == ChInit /\ [][ChCall]_vars

-----------------------------------------------------------------------------
(* ChromagramColour::get_colour called frame after frame on spectra with    *)
(* energy in up to two bins                                                 *)

\* the smoothing factors a ChromagramColour is constructed with
SmoothingFactors == {<<1, 2>>, One}

\* <<sampling_rate, spectrum length>> of the calls.  At 44100 Hz and 64 bins
\* bin 2 falls into pitch class 0, bin 4 into 9, bin 12 into 2 and bin 16 into
\* 6; at 8000 Hz and 8 bins the last pitch boundary lies beyond the spectrum.
ColourRates == {<<44100, 64>>, <<8000, 8>>}

\* the bins that can carry energy in the modelled spectra
SampleBins == {2, 4, 12, 16}

\* the spectrum of the given length with unit energy in the given bins
SpectrumOf(len, bins) == [k \in 1..len |-> IF (k - 1) \in bins THEN 1 ELSE 0]

\* ChromagramColour::new(smoothing_factor)
CcInit ==
    /\ LrIdle /\ SmIdle /\ HpsIdle /\ ChIdle /\ VisIdle /\ AvIdle /\ TopIdle
    /\ cc_smoothing_factor \in SmoothingFactors
    /\ cc_smoothed_chromagram = Zeros(12)
    /\ cc_colour = White
    /\ cc_rate \in ColourRates
    /\ cc_chromagram = <<>>
    /\ cc_calls = 0
    /\ cc_panic = FALSE

\* one call self.colour.get_colour(input, self.sampling_rate); a panic ends the run
CcGetColour ==
    /\ ~cc_panic
    /\ cc_calls < MaxColourCalls
    /\ \E bins \in {e \in SUBSET SampleBins : Cardinality(e) <= 2} :
          LET r == GetColour(cc_smoothed_chromagram, cc_smoothing_factor,
                             SpectrumOf(cc_rate[2], bins), cc_rate[1])
          IN  /\ cc_panic' = r.panic
              /\ cc_chromagram' = r.chromagram
              /\ cc_smoothed_chromagram' = r.smoothed_chromagram
              /\ cc_colour' = r.colour
    /\ cc_calls' = cc_calls + 1
    /\ UNCHANGED <<cc_smoothing_factor, cc_rate>>
    /\ UNCHANGED <<lr_vars, sm_vars, hps_vars, ch_vars, vis_vars, av_vars, top_vars>>

SpecColour == CcInit /\ [][CcGetColour]_vars

-----------------------------------------------------------------------------
(* A Visualiser is configured, built for 44100 Hz and an FFT of 8 samples,  *)
(* and draws frame after frame                                              *)

VisSamplingRate == 44100

VisFftSize == 8

\* the gammas GammaCorrected is configured with: -1, 0, 1 and 2
Gammas == {<<0 - 1, 1>>, Zero, One, <<2, 1>>}

GroupingStrategies == {NoGrouping, LogMax, LogMean} \cup {GammaCorrected(g) : g \in Gammas}

\* the spectra handed to draw_fft: the VisFftSize / 2 magnitudes of a frame
\* (silence among them), and the spectrum of an FFT of half the size
SampleSpectra ==
    { <<0, 0, 0, 0>>, <<3, 0, 0, 0>>, <<0, 1, 3, 0>>, <<1, 3, 1, 7>>,
      <<2, 0, 1, 1>>, <<3, 1>> }

\* VisualiserBuilder::new().with_grouping(..).with_smoothing(..)
VisInit ==
    /\ LrIdle /\ SmIdle /\ HpsIdle /\ ChIdle /\ CcIdle /\ AvIdle /\ TopIdle
    /\ vis_grouping \in GroupingStrategies
    /\ vis_num_bars \in 0..MaxVisBars
    /\ vis_smoothing \in SmoothingStrategies
    /\ vis_built = FALSE
    /\ vis_grouping_ranges = <<>>
    /\ vis_bars_to_display = <<>>
    /\ vis_input = <<>>
    /\ vis_normalised = <<>>
    /\ vis_frames = 0
    /\ vis_panic = FALSE

\* builder.build(sampling_rate, fft_size)
VisBuild ==
    /\ ~vis_built /\ ~vis_panic
    /\ LET r == Build(vis_grouping, vis_num_bars, VisSamplingRate, VisFftSize)
       IN  /\ vis_panic' = r.panic
           /\ vis_built' = ~r.panic
           /\ vis_grouping_ranges' = r.grouping_ranges
           /\ vis_bars_to_display' = r.bars_to_display
    /\ UNCHANGED <<vis_grouping, vis_num_bars, vis_smoothing, vis_input,
                   vis_normalised, vis_frames>>
    /\ UNCHANGED <<lr_vars, sm_vars, hps_vars, ch_vars, cc_vars, av_vars, top_vars>>

\* visualiser.draw_fft(input); a panic ends the run
VisDrawFft ==
    /\ vis_built /\ ~vis_panic
    /\ vis_frames < MaxFrames
    /\ \E input \in SampleSpectra :
          LET r == DrawFft(vis_grouping, vis_smoothing, vis_grouping_ranges,
                           vis_bars_to_display, input)
          IN  /\ vis_input' = input
              /\ vis_panic' = r.panic
              /\ vis_bars_to_display' = r.bars_to_display
              /\ vis_normalised' = r.normalised
    /\ vis_frames' = vis_frames + 1
    /\ UNCHANGED <<vis_grouping, vis_num_bars, vis_smoothing, vis_built,
                   vis_grouping_ranges>>
    /\ UNCHANGED <<lr_vars, sm_vars, hps_vars, ch_vars, cc_vars, av_vars, top_vars>>

SpecVis == VisInit /\ [][VisBuild \/ VisDrawFft]_vars

-----------------------------------------------------------------------------
(* The capture thread and the render loop of main.rs, interleaved           *)

AvInit ==
    /\ LrIdle /\ SmIdle /\ HpsIdle /\ ChIdle /\ CcIdle /\ VisIdle /\ TopIdle
    /\ buffer = <<>>
    /\ mutex = "none"
    /\ cap_pc = "read"
    /\ cap_new_samples = <<>>
    /\ cap_reads = 0
    /\ cap_pushed = 0
    /\ rd_pc = "lock"
    /\ rd_samples_to_use = <<>>
    /\ rd_transformed = {}
    /\ rd_smoothed_updates = 0
    /\ rd_frames = 0

rd_only == <<rd_pc, rd_samples_to_use, rd_transformed, rd_smoothed_updates, rd_frames>>

cap_only == <<cap_pc, cap_new_samples, cap_reads, cap_pushed>>

others == <<lr_vars, sm_vars, hps_vars, ch_vars, cc_vars, vis_vars, top_vars>>

\* if let Ok(_) = s.read(&mut raw_samples) { let mut new_samples = ...
CapRead ==
    /\ cap_pc = "read" /\ cap_reads < MaxReads
    /\ cap_new_samples' = NewSamples(cap_pushed)
    /\ cap_reads' = cap_reads + 1
    /\ cap_pc' = "lock"
    /\ UNCHANGED <<buffer, mutex, cap_pushed, rd_only, others>>

\* } else { eprintln!("Failed to read from audio source"); }
CapReadFailed ==
    /\ cap_pc = "read" /\ cap_reads < MaxReads
    /\ cap_reads' = cap_reads + 1
    /\ UNCHANGED <<buffer, mutex, cap_pc, cap_new_samples, cap_pushed, rd_only, others>>

\* let mut buf = buffer.lock().unwrap();
CapLock ==
    /\ cap_pc = "lock" /\ mutex = "none"
    /\ mutex' = "capture"
    /\ cap_pc' = "push"
    /\ UNCHANGED <<buffer, cap_new_samples, cap_reads, cap_pushed, rd_only, others>>

\* for s in new_samples { buf.push_back(s); }   one iteration
CapPush ==
    /\ cap_pc = "push" /\ cap_new_samples # <<>>
    /\ buffer' = PushBack(buffer, Head(cap_new_samples))
    /\ cap_new_samples' = Tail(cap_new_samples)
    /\ cap_pushed' = cap_pushed + 1
    /\ cap_pc' = IF Tail(cap_new_samples) = <<>> THEN "trim" ELSE "push"
    /\ UNCHANGED <<mutex, cap_reads, rd_only, others>>

\* while buf.len() > FFT_SIZE { buf.pop_front(); }   one iteration
CapTrim ==
    /\ cap_pc = "trim" /\ Len(buffer) > FftSize
    /\ buffer' = PopFront(buffer)
    /\ UNCHANGED <<mutex, cap_only, rd_only, others>>

\* the loop is left and the guard dropped at the end of the block
CapUnlock ==
    /\ cap_pc = "trim" /\ ~(Len(buffer) > FftSize)
    /\ mutex' = Released(mutex)
    /\ cap_pc' = "read"
    /\ UNCHANGED <<buffer, cap_new_samples, cap_reads, cap_pushed, rd_only, others>>

\* samples.lock().unwrap()
RdLock ==
    /\ rd_pc = "lock" /\ mutex = "none" /\ rd_frames < MaxRenderFrames
    /\ mutex' = "render"
    /\ rd_pc' = "copy"
    /\ UNCHANGED <<buffer, cap_only, rd_samples_to_use, rd_transformed,
                   rd_smoothed_updates, rd_frames, others>>

\* .clone().iter().zip(&window_vec).map(..).collect()
RdCopy ==
    /\ rd_pc = "copy"
    /\ rd_samples_to_use' = Windowed(buffer)
    /\ rd_pc' = "unlock"
    /\ UNCHANGED <<buffer, mutex, cap_only, rd_transformed, rd_smoothed_updates,
                   rd_frames, others>>

\* the end of the statement drops the guard
RdUnlock ==
    /\ rd_pc = "unlock"
    /\ mutex' = Released(mutex)
    /\ rd_pc' = "check"
    /\ UNCHANGED <<buffer, cap_only, rd_samples_to_use, rd_transformed,
                   rd_smoothed_updates, rd_frames, others>>

\* if samples_to_use.len() < FFT_SIZE { next_frame().await; continue; }
RdCheck ==
    /\ rd_pc = "check"
    /\ rd_pc' = IF TooShort(rd_samples_to_use) THEN "next_frame" ELSE "fft"
    /\ UNCHANGED <<buffer, mutex, cap_only, rd_samples_to_use, rd_transformed,
                   rd_smoothed_updates, rd_frames, others>>

\* let spectrum = compute_fft(&samples_to_use, &fft);
RdFft ==
    /\ rd_pc = "fft"
    /\ rd_transformed' = rd_transformed \cup {Len(rd_samples_to_use)}
    /\ rd_pc' = "analyse"
    /\ UNCHANGED <<buffer, mutex, cap_only, rd_samples_to_use, rd_smoothed_updates,
                   rd_frames, others>>

\* take_log_max_ranges, the update of `smoothed`, normalisation and drawing
RdAnalyse ==
    /\ rd_pc = "analyse"
    /\ rd_smoothed_updates' = rd_smoothed_updates + 1
    /\ rd_pc' = "next_frame"
    /\ UNCHANGED <<buffer, mutex, cap_only, rd_samples_to_use, rd_transformed,
                   rd_frames, others>>

\* next_frame().await and the next iteration; samples_to_use is dropped
RdNextFrame ==
    /\ rd_pc = "next_frame"
    /\ rd_frames' = rd_frames + 1
    /\ rd_samples_to_use' = <<>>
    /\ rd_pc' = "lock"
    /\ UNCHANGED <<buffer, mutex, cap_only, rd_transformed, rd_smoothed_updates, others>>

AvNext ==
    \/ CapRead \/ CapReadFailed \/ CapLock \/ CapPush \/ CapTrim \/ CapUnlock
    \/ RdLock \/ RdCopy \/ RdUnlock \/ RdCheck \/ RdFft \/ RdAnalyse \/ RdNextFrame

SpecCapture == AvInit /\ [][AvNext]_vars

-----------------------------------------------------------------------------
(* get_n_largest_indices called as a function, and on a smoothed chromagram *)

\* the pitch classes that may carry energy in a modelled chromagram
ChromaClasses == {0, 4, 7, 11}

\* a smoothed chromagram with energy k + 1 in each class k of S, 0.0 elsewhere
ChromagramWith(S) == [k \in 1..12 |-> IF (k - 1) \in S THEN k ELSE 0]

\* from silence (no class has energy) to four classes with energy
TopChromagrams == {ChromagramWith(S) : S \in SUBSET ChromaClasses}

TopInit ==
    /\ LrIdle /\ SmIdle /\ HpsIdle /\ ChIdle /\ CcIdle /\ VisIdle /\ AvIdle
    /\ top_items \in SeqsUpTo(0..MaxTopValue, MaxTopLen) \cup TopChromagrams
    /\ top_n \in 1..MaxTopN
    /\ top_called = FALSE
    /\ top_indices = <<>>
    /\ top_notes = <<>>

\* get_n_largest_indices(items, n)
TopCall ==
    /\ ~top_called
    /\ top_indices' = GetNLargestIndices(top_items, top_n)
    /\ top_called' = TRUE
    /\ UNCHANGED <<top_items, top_n, top_notes>>
    /\ UNCHANGED <<lr_vars, sm_vars, hps_vars, ch_vars, cc_vars, vis_vars, av_vars>>

\* draw_chromagram: the top three indices of the smoothed chromagram and their notes
TopDrawChromagram ==
    /\ ~top_called
    /\ Len(top_items) = 12
    /\ top_n' = 3
    /\ top_indices' = GetNLargestIndices(top_items, 3)
    /\ top_notes' = TopNotes(GetNLargestIndices(top_items, 3))
    /\ top_called' = TRUE
    /\ UNCHANGED top_items
    /\ UNCHANGED <<lr_vars, sm_vars, hps_vars, ch_vars, cc_vars, vis_vars, av_vars>>

SpecTop == TopInit /\ [][TopCall \/ TopDrawChromagram]_vars

-----------------------------------------------------------------------------
(* Claims *)

\* The ranges of a RangeSet are non-empty, ordered and do not overlap.
RangesOrdered(ranges) ==
    /\ \A k \in 1..Len(ranges) : ranges[k][2] > ranges[k][1]
    /\ \A k \in 2..Len(ranges) :
          /\ ranges[k][1] >= ranges[k - 1][1]
          /\ ranges[k][1] >= ranges[k - 1][2]

\* C1: for every bar count n >= 1 and every (sample_rate, fft_size), log_ranges
\* returns exactly n ranges, each of width >= 1, with non-decreasing starts and
\* each start at or after the previous end; the bars per band are the floored
\* product n * weight plus one extra bar for each of the first (n - sum of the
\* floors) bands, they sum to n, and handing out the extras never indexes
\* past the sixth band.
C1_LogRangesShape ==
    (lr_called /\ lr_num_bars >= 1) =>
        LET n == lr_num_bars
            floored == FlooredBins(n)
            shortfall == n - SumSeq(floored)
        IN  /\ ~lr_result.panic
            /\ shortfall \in 0..6
            /\ lr_result.index = shortfall
            /\ \A b \in 1..6 :
                  lr_result.bins_per_range[b] =
                      floored[b] + (IF b <= shortfall THEN 1 ELSE 0)
            /\ SumSeq(lr_result.bins_per_range) = n
            /\ Len(lr_result.ranges) = n
            /\ RangesOrdered(lr_result.ranges)

\* C1 witness: a call for 13 bars has returned; every band has bars, two
\* extras were handed out, and a computed end beyond the clamp was used.
C1_Witness ==
    /\ lr_called
    /\ lr_num_bars = 13
    /\ lr_result.bins_per_range = <<2, 3, 2, 3, 2, 1>>
    /\ \E k \in 1..Len(lr_result.ranges) :
          lr_result.ranges[k][2] > lr_result.ranges[k][1] + 1

\* C2: on the first smooth call after construction (the BarSet of length >= 1
\* still all zero), RiseFall smoothing sets the BarSet equal to the raw bars,
\* with no blending.
C2_FirstCallCopies ==
    (/\ sm_strategy = RiseFall
     /\ sm_calls = 1
     /\ Len(sm_previous) >= 1
     /\ Len(sm_current) = Len(sm_previous)) =>
        (~sm_panic /\ sm_previous = sm_current)

\* C3: on every RiseFall smooth call with raw bars C as long as the BarSet S,
\* each entry is updated on its own: S'[i] = S[i]*rise + C[i]*(1-rise) when
\* C[i] > S[i], and S'[i] = S[i]*fall + C[i]*(1-fall) otherwise (equality takes
\* the release branch); the call does not panic and keeps the length.
C3_RiseFallPointwise ==
    [][(/\ sm_strategy = RiseFall
        /\ sm_calls' = sm_calls + 1
        /\ Len(sm_current') = Len(sm_previous)) =>
           /\ ~sm_panic'
           /\ Len(sm_previous') = Len(sm_previous)
           /\ \A i \in 1..Len(sm_previous) :
                 LET S == sm_previous[i]
                     C == sm_current'[i]
                     rise == sm_strategy.rise
                     fall == sm_strategy.fall
                 IN  sm_previous'[i] =
                        IF ~RLeq(C, S)
                        THEN RAdd(RMul(S, rise), RMul(C, RSub(One, rise)))
                        ELSE RAdd(RMul(S, fall), RMul(C, RSub(One, fall)))]_vars

\* C3 witness: after raw bars [0.8] then [0.2] the release branch has acted on
\* the stored 0.4: 0.4 * 0.9 + 0.2 * 0.1 = 0.38.
C3_Witness ==
    /\ sm_strategy = RiseFall
    /\ sm_calls = 2
    /\ sm_current = << <<1, 5>> >>
    /\ sm_previous = << <<19, 50>> >>

\* C4: with SmoothingStrategy::None every smooth call overwrites the BarSet
\* with the raw bars, so after each call the BarSet equals that call's raw bars.
C4_NoneOverwrites ==
    (/\ sm_strategy = NoneStrategy
     /\ sm_calls >= 1
     /\ Len(sm_current) = Len(sm_previous)) =>
        sm_previous = sm_current

\* spectrum[k * i] multiplied over k = 1..n (indices from 0)
RECURSIVE HarmonicProduct(_, _, _)
HarmonicProduct(spectrum, i, n) ==
    IF n = 0 THEN 1 ELSE spectrum[n * i + 1] * HarmonicProduct(spectrum, i, n - 1)

\* C9 as stated: for D > 1 the output has length floor(len / D) and its entry
\* at EVERY index 0 <= i < floor(len / D) is the product of spectrum[k * i] for
\* k = 1..D, with no read outside the spectrum; for D <= 1 the output is a
\* copy of the spectrum.
C9_HpsEveryIndex ==
    hps_called =>
        /\ ~hps_result.panic
        /\ hps_downsamples <= 1 => hps_result.result = hps_frequencies
        /\ hps_downsamples > 1 =>
              /\ Len(hps_result.result) = Len(hps_frequencies) \div hps_downsamples
              /\ \A i \in 0..(Len(hps_result.result) - 1) :
                    hps_result.result[i + 1] =
                        HarmonicProduct(hps_frequencies, i, hps_downsamples)

\* C9 amended: as above for every index 1 <= i < floor(len / D); the entry at
\* index 0 is spectrum[0] itself, not its D-th power.
C9_HpsFromIndexOne ==
    hps_called =>
        /\ ~hps_result.panic
        /\ hps_downsamples <= 1 => hps_result.result = hps_frequencies
        /\ hps_downsamples > 1 =>
              /\ Len(hps_result.result) = Len(hps_frequencies) \div hps_downsamples
              /\ Len(hps_result.result) >= 1 =>
                    hps_result.result[1] = hps_frequencies[1]
              /\ \A i \in 1..(Len(hps_result.result) - 1) :
                    hps_result.result[i + 1] =
                        HarmonicProduct(hps_frequencies, i, hps_downsamples)

\* C9 witness: D = 2 on a spectrum of length 5 starting with 2, 3, 2: the
\* output is [2, 3 * 2].
C9_Witness ==
    /\ hps_called
    /\ hps_downsamples = 2
    /\ Len(hps_frequencies) = 5
    /\ SubSeq(hps_frequencies, 1, 3) = <<2, 3, 2>>
    /\ hps_result.result = <<2, 6>>

\* the sum of pitches[p] over the pitches p of class c: p = c, c + 12, ...
RECURSIVE ClassEnergy(_, _)
ClassEnergy(pitches, p) ==
    IF p >= Len(pitches) THEN 0 ELSE pitches[p + 1] + ClassEnergy(pitches, p + 12)

RECURSIVE RSumSeq(_)
RSumSeq(s) == IF s = <<>> THEN Zero ELSE RAdd(Head(s), RSumSeq(Tail(s)))

\* C10: chromagram entry c is the sum of pitch[p] over all p with p mod 12 = c,
\* so the chromagram total is the pitch-spectrum total; the normalising
\* variant sums to 1 when the total is > 0 and is all zero when it is 0.
C10_ChromagramFolds ==
    ch_called =>
        /\ \A c \in 0..11 : ch_chromagram[c + 1] = ClassEnergy(ch_pitches, c)
        /\ SumSeq(ch_chromagram) = SumSeq(ch_pitches)
        /\ \A c \in 0..11 :
              ch_normalised[c + 1] =
                  IF SumSeq(ch_pitches) > 0
                  THEN Rat(ClassEnergy(ch_pitches, c), SumSeq(ch_pitches))
                  ELSE Zero
        /\ RSumSeq(ch_normalised) = (IF SumSeq(ch_pitches) > 0 THEN One ELSE Zero)

\* C10 witness: energy 1 at pitches 60 and 72 (both pitch class 0) gives
\* chroma[0] = 2 before and 1 after normalisation.
C10_Witness ==
    /\ ch_called
    /\ ch_pitches = PitchSpectrumOf(60, 1, 72, 1)
    /\ ch_chromagram[1] = 2
    /\ ch_normalised[1] = One

\* the chromagram with all energy in pitch class 0
PureClassZero == [c \in 1..12 |-> IF c = 1 THEN One ELSE Zero]

\* the chromagram split evenly between pitch classes 0 and 6
SplitZeroSix == [c \in 1..12 |-> IF c \in {1, 7} THEN <<1, 2>> ELSE Zero]

\* a colour HSV->RGB(h, 1, 1) has its largest channel at 1 and its smallest at 0
FullySaturated(colour) ==
    /\ One \in {colour[1], colour[2], colour[3]}
    /\ Zero \in {colour[1], colour[2], colour[3]}
    /\ \A k \in 1..3 : RLeq(colour[k], One)

\* C8: the colour ChromagramHue returns for a chromagram with energy is always
\* HSV->RGB(h, 1, 1) for some hue h, that is a colour of full saturation and
\* full value; it is pure red (hue 0) when the chromagram of the first call
\* has all its energy in pitch class 0; and it is still a fully saturated
\* colour, never a blended or desaturated one, when the chromagram is split
\* evenly between pitch classes 0 and 6.
C8_ColourIsPureHue ==
    (cc_calls >= 1 /\ ~cc_panic /\ cc_chromagram # Zeros(12)) =>
        /\ FullySaturated(cc_colour)
        /\ (cc_calls = 1 /\ cc_chromagram = PureClassZero) =>
              cc_colour = <<One, Zero, Zero, One>>
        /\ (cc_chromagram = SplitZeroSix) =>
              ~(cc_colour[1] = cc_colour[2] /\ cc_colour[2] = cc_colour[3])

\* the largest of the bars and of 1e-6: at least each of them, and one of them
IsFlooredMax(m, bars) ==
    /\ RLeq(Epsilon, m)
    /\ \A i \in 1..Len(bars) : RLeq(bars[i], m)
    /\ m = Epsilon \/ \E i \in 1..Len(bars) : m = bars[i]

\* C5: after every frame draw_fft completes, each bar handed to rendering is
\* the smoothed bar divided by the larger of the largest smoothed bar and
\* 1e-6, and lies between 0 and 1; when the smoothed bars are all zero the
\* bars handed to rendering are all zero (none is NaN).
C5_NormalisedBars ==
    (vis_frames >= 1 /\ ~vis_panic) =>
        /\ Len(vis_normalised) = Len(vis_bars_to_display)
        /\ \E m \in {Epsilon} \cup {vis_bars_to_display[i] : i \in 1..Len(vis_bars_to_display)} :
              /\ IsFlooredMax(m, vis_bars_to_display)
              /\ \A i \in 1..Len(vis_normalised) :
                    vis_normalised[i] = RDiv(vis_bars_to_display[i], m)
        /\ \A i \in 1..Len(vis_normalised) :
              /\ ~IsNaN(vis_normalised[i])
              /\ RLeq(Zero, vis_normalised[i])
              /\ RLeq(vis_normalised[i], One)
        /\ (\A i \in 1..Len(vis_bars_to_display) : vis_bars_to_display[i] = Zero) =>
              \A i \in 1..Len(vis_normalised) : vis_normalised[i] = Zero

\* a second frame of silence after a loud one: the largest bar is drawn at 1,
\* another one strictly between 0 and 1
C5_Witness ==
    /\ vis_frames = 2 /\ ~vis_panic
    /\ vis_input = <<0, 0, 0, 0>>
    /\ \E i, j \in 1..Len(vis_normalised) :
          /\ vis_normalised[i] = One
          /\ RLess(Zero, vis_normalised[j]) /\ RLess(vis_normalised[j], One)

\* the first frame of a run is silence: every bar handed to rendering is zero
C5_SilenceWitness ==
    /\ vis_frames = 1 /\ ~vis_panic
    /\ Len(vis_normalised) >= 2
    /\ \A i \in 1..Len(vis_normalised) : vis_normalised[i] = Zero

\* a grouping configuration is valid: at least one bar, and a positive gamma
ValidConfiguration ==
    /\ vis_num_bars >= 1
    /\ vis_grouping.kind = "GammaCorrected" => vis_grouping.gamma[1] > 0

\* the end index of the last range of a RangeSet
FinalEnd(ranges) == IF ranges = <<>> THEN 0 ELSE ranges[Len(ranges)][2]

\* C6: a draw_fft of a validly configured Visualiser whose spectrum is shorter
\* than the final end index of the ranges built before does not abort: the
\* frame is skipped.
C6_ShortSpectrumSkipped ==
    (vis_built /\ ValidConfiguration /\ vis_frames >= 1
        /\ Len(vis_input) < FinalEnd(vis_grouping_ranges)) =>
        ~vis_panic

\* C7: build returns a Visualiser with a grouping that forms bars only for a
\* valid grouping configuration: a bar count of zero, or a GammaCorrected
\* gamma that is not positive, fails at construction.
C7_InvalidConfigurationRejected ==
    (vis_built /\ vis_grouping.kind # "NoGrouping") => ValidConfiguration

\* C11: in every interleaving the transform runs only on blocks of exactly
\* FFT_SIZE samples, and a frame whose snapshot is shorter is skipped: it goes
\* to the next frame without reaching the transform and without an update of
\* the smoothed bars.
C11_OnlyFullBlocks ==
    /\ [](rd_transformed \subseteq {FftSize})
    /\ [](rd_pc \in {"fft", "analyse"} => Len(rd_samples_to_use) = FftSize)
    /\ [][(rd_pc = "check" /\ Len(rd_samples_to_use) < FftSize /\ rd_pc' # rd_pc) =>
              (rd_pc' = "next_frame" /\ rd_smoothed_updates' = rd_smoothed_updates)]_vars

\* a short frame was skipped and a later frame transformed a full block
C11_Witness ==
    /\ rd_frames >= 1
    /\ rd_smoothed_updates = 0
    /\ rd_pc = "analyse"
    /\ rd_transformed = {FftSize}

\* the samples are consecutive captures, the last one being `newest`
MostRecent(samples, newest) ==
    \A i \in 1..Len(samples) : samples[i] = newest - Len(samples) + i

\* C12: whenever the capture thread does not hold the mutex the buffer holds
\* at most FFT_SIZE samples, the most recently captured ones in capture
\* order; every snapshot of the render loop has at most FFT_SIZE samples, in
\* capture order, and they are the most recent ones while the render loop
\* still holds the mutex.
C12_BufferBoundedAndRecent ==
    /\ mutex # "capture" =>
          /\ Len(buffer) <= FftSize
          /\ MostRecent(buffer, cap_pushed)
    /\ rd_pc \in {"unlock", "check", "fft", "analyse"} =>
          /\ Len(rd_samples_to_use) <= FftSize
          /\ \A k \in 1..Len(rd_samples_to_use) : rd_samples_to_use[k][2] = k
          /\ \A k \in 2..Len(rd_samples_to_use) :
                rd_samples_to_use[k][1] = rd_samples_to_use[k - 1][1] + 1
    /\ rd_pc = "unlock" =>
          MostRecent([k \in 1..Len(rd_samples_to_use) |-> rd_samples_to_use[k][1]],
                     cap_pushed)

\* the buffer has overflowed and the snapshot holds the second block read
C12_Witness ==
    /\ cap_pushed = 2 * FftSize
    /\ mutex = "none"
    /\ Len(buffer) = FftSize /\ buffer[1] = FftSize + 1
    /\ rd_pc = "check"
    /\ Len(rd_samples_to_use) = FftSize /\ rd_samples_to_use[1][1] = FftSize + 1

\* C13: the render loop holds the mutex only while it copies the snapshot,
\* never while it checks, transforms, analyses or waits for the next frame.
C13_LockOnlyWhileCopying ==
    /\ mutex = "render" => rd_pc \in {"copy", "unlock"}
    /\ rd_pc \in {"check", "fft", "analyse", "next_frame"} => mutex # "render"

\* the capture thread holds the mutex and pushes while the render loop analyses
C13_Witness ==
    /\ rd_pc = "analyse"
    /\ mutex = "capture"
    /\ cap_pc = "push"

\* every range is a non-empty slice of a spectrum of `len` bins
RangesWithin(ranges, len) ==
    \A i \in 1..Len(ranges) : ranges[i][1] < ranges[i][2] /\ ranges[i][2] <= len

\* C14: every range of a RangeSet that create_ranges builds for LogMax,
\* LogMean or GammaCorrected in a valid configuration has start < end and
\* end <= fft_size / 2, the length of the spectrum.
C14_RangesWithinSpectrum ==
    (vis_built /\ ValidConfiguration /\ vis_grouping.kind # "NoGrouping") =>
        RangesWithin(vis_grouping_ranges, VisFftSize \div 2)

\* range b (counted from 0) holds exactly the bins whose bar index is b
BinsOfBar(ranges, num_bins, fft_size, gamma) ==
    \A b \in 1..Len(ranges) :
        \A k \in 0..(fft_size \div 2 - 1) :
            (ranges[b][1] <= k /\ k < ranges[b][2]) <=>
                GammaBarIndex(Rat(2 * k, fft_size), num_bins, gamma) = b - 1

\* C15: for GammaCorrected with num_bins >= 1 and gamma > 0 the RangeSet has
\* exactly num_bins ranges, which partition the bins 0..fft_size/2
\* contiguously, bin k lying in range b exactly when its bar index
\* floor((k * freqPerBin / nyquist)^(1/gamma) * num_bins) is b.
C15_GammaRangesPartitionBins ==
    (vis_built /\ ValidConfiguration /\ vis_grouping.kind = "GammaCorrected") =>
        /\ Len(vis_grouping_ranges) = vis_num_bars
        /\ vis_grouping_ranges[1][1] = 0
        /\ \A b \in 2..Len(vis_grouping_ranges) :
              vis_grouping_ranges[b][1] = vis_grouping_ranges[b - 1][2]
        /\ FinalEnd(vis_grouping_ranges) = VisFftSize \div 2
        /\ BinsOfBar(vis_grouping_ranges, vis_num_bars, VisFftSize, vis_grouping.gamma)

\* C16: for every grouping strategy and every update of a built Visualiser
\* the grouped bars of the frame are as many as the BarSet created at
\* construction, the BarSet keeps its length, and the smoother does not index
\* outside it.
C16_GroupedLengthIsBarSetLength ==
    (vis_built /\ ValidConfiguration /\ vis_frames >= 1
        /\ Len(vis_input) = VisFftSize \div 2
        /\ ~SpectrumToBars(vis_grouping, vis_input, vis_grouping_ranges).panic) =>
        /\ Len(SpectrumToBars(vis_grouping, vis_input, vis_grouping_ranges).bars)
              = Len(vis_bars_to_display)
        /\ Len(vis_bars_to_display) = vis_num_bars
        /\ ~vis_panic

\* the value of the item that index idx (from 0) names
ItemAt(items, idx) == items[idx + 1]

\* C17: for items with at least n entries, n >= 1, get_n_largest_indices
\* returns n distinct valid indices of items in descending order of value, no
\* unselected item being larger than a selected one; the top three notes of a
\* smoothed chromagram are all real pitch classes, also when fewer than three
\* entries are positive.
C17_TopIndicesValid ==
    (top_called /\ Len(top_items) >= top_n) =>
        /\ Len(top_indices) = top_n
        /\ \A i \in 1..top_n : top_indices[i] \in 0..(Len(top_items) - 1)
        /\ \A i, j \in 1..top_n : i # j => top_indices[i] # top_indices[j]
        /\ \A i \in 1..(top_n - 1) :
              ItemAt(top_items, top_indices[i]) >= ItemAt(top_items, top_indices[i + 1])
        /\ \A k \in 0..(Len(top_items) - 1) :
              (\A i \in 1..top_n : top_indices[i] # k) =>
                  \A i \in 1..top_n : ItemAt(top_items, k) <= ItemAt(top_items, top_indices[i])
        /\ \A i \in 1..Len(top_notes) : top_notes[i] # "UNK"

=============================================================================
